---- MODULE Spec2Model ----
(***************************************************************************)
(* The Tofu lexer (src/src/lexer.rs) and its keyword table                 *)
(* (src/src/token.rs) as a state machine, and the read-print loop that     *)
(* drives it (src/src/repl.rs).                                            *)
(*                                                                         *)
(* A character is a one-element string; characters that TLA+ strings       *)
(* cannot spell are named by their code point ("U+0000").  The input is a  *)
(* sequence of characters (Vec<char>), indexed from 0 in the code and from *)
(* 1 here, so input[i] of the code is input[i + 1] of the model.  A token  *)
(* is a record [kind, literal]; literal is a sequence of characters.       *)
(***************************************************************************)
EXTENDS Integers, Sequences, FiniteSets, TLC

VARIABLES input, pos, read_pos, ch, status, tok, at, toks, pc, stdin, stdout

vars == <<input, pos, read_pos, ch, status, tok, at, toks, pc, stdin, stdout>>

(***************************************************************************)
(* Bounds of the model.                                                    *)
(***************************************************************************)
\* longest input drawn character by character from CoreAlphabet
MaxLen == 4
\* most fragments of Pieces concatenated into one input
MaxPieces == 2
\* longest input over CoreAlphabet of the specification with fairness
MaxLiveLen == 2
\* how far past the end of the input the cursor is followed.  read_pos is a
\* usize (64 bits) that only ever grows; the model stops following it at
\* Len(input) + MaxOver, and follows at most that many calls of next.
MaxOver == 3
\* most lines on the standard input of repl::start
MaxLines == 2

(***************************************************************************)
(* Characters.                                                             *)
(***************************************************************************)
\* '\0', the value of char::default() and the lexer's end-of-input sentinel
NUL == "U+0000"
\* a letter outside ASCII (e with acute accent)
EAcute == "U+00E9"
\* a numeric character that is not a decimal digit (vulgar fraction 1/2)
OneHalf == "U+00BD"
\* superscript two: numeric, not a decimal digit
SuperTwo == "U+00B2"
\* vertical tab and no-break space: white space, but not ASCII white space
VTab == "U+000B"
NoBreakSpace == "U+00A0"

AsciiLetters == {"a", "b", "e", "f", "i", "l", "n", "r", "s", "t", "u", "x", "F"}
DecimalDigits == {"0", "1", "2", "3", "4", "5", "6", "7", "8", "9"}

\* char::is_whitespace (the Unicode White_Space property) in its place
is_whitespace(c) == c \in {" ", "\t", "\n", "\f", "\r", VTab, NoBreakSpace}

\* char::is_ascii_whitespace: U+0020, U+0009, U+000A, U+000C, U+000D
is_ascii_whitespace(c) == c \in {" ", "\t", "\n", "\f", "\r"}

\* char::is_alphabetic, on the characters of the model
is_alphabetic(c) == c \in AsciiLetters \cup {EAcute}

\* char::is_numeric (general categories Nd, Nl, No), on the characters of
\* the model
is_numeric(c) == c \in DecimalDigits \cup {OneHalf, SuperTwo}

(***************************************************************************)
(* token.rs                                                                *)
(***************************************************************************)
TokenKind ==
    {"Illegal", "Identifier", "Int", "Str", "Assign", "Eq", "NotEq", "Plus",
     "Minus", "Bang", "Asterisk", "Slash", "LessThan", "GreaterThan",
     "Comma", "Semicolon", "LeftParen", "RightParen", "LeftBrace",
     "RightBrace", "If", "Else", "True", "False", "Return", "Fn", "Let",
     "Eof"}

Token(kind, literal) == [kind |-> kind, literal |-> literal]

\* lookup_identifier without its "return" arm
lookup_identifier_no_return(identifier) ==
    CASE identifier = <<"f", "n">> -> "Fn"
      [] identifier = <<"l", "e", "t">> -> "Let"
      [] identifier = <<"i", "f">> -> "If"
      [] identifier = <<"e", "l", "s", "e">> -> "Else"
      [] identifier = <<"t", "r", "u", "e">> -> "True"
      [] identifier = <<"f", "a", "l", "s", "e">> -> "False"
      [] OTHER -> "Identifier"

lookup_identifier(identifier) ==
    CASE identifier = <<"f", "n">> -> "Fn"
      [] identifier = <<"l", "e", "t">> -> "Let"
      [] identifier = <<"i", "f">> -> "If"
      [] identifier = <<"e", "l", "s", "e">> -> "Else"
      [] identifier = <<"t", "r", "u", "e">> -> "True"
      [] identifier = <<"f", "a", "l", "s", "e">> -> "False"
      [] identifier = <<"r", "e", "t", "u", "r", "n">> -> "Return"
      [] OTHER -> "Identifier"

(***************************************************************************)
(* lexer.rs: the Lexer is the record [input, pos, read_pos, ch].           *)
(***************************************************************************)
\* the position at which the model stops following the cursor
Cap(l) == Len(l.input) + MaxOver

\* the indices of input that read_char and peek_char read (0-based): none
\* when read_pos >= input.len(), read_pos otherwise
read_char_index(l) ==
    IF l.read_pos >= Len(l.input) THEN {} ELSE {l.read_pos}

peek_char_index(l) ==
    IF l.read_pos >= Len(l.input) THEN {} ELSE {l.read_pos}

\* read_char with its last two statements in the other order
read_char_increment_first(l) ==
    [l EXCEPT !.ch = IF l.read_pos >= Len(l.input)
                     THEN NUL
                     ELSE l.input[l.read_pos + 1],
              !.pos = l.read_pos + 1,
              !.read_pos = l.read_pos + 1]

read_char(l) ==
    [l EXCEPT !.ch = IF l.read_pos >= Len(l.input)
                     THEN NUL
                     ELSE l.input[l.read_pos + 1],
              !.pos = l.read_pos,
              !.read_pos = l.read_pos + 1]

\* peek_char indexing with pos instead of read_pos
peek_char_at_pos(l) ==
    IF l.pos >= Len(l.input) THEN NUL ELSE l.input[l.pos + 1]

peek_char(l) ==
    IF l.read_pos >= Len(l.input) THEN NUL ELSE l.input[l.read_pos + 1]

new_token(kind, c) == Token(kind, <<c>>)

is_letter(c) == is_alphabetic(c) \/ c = "_"

is_num(c) == is_numeric(c)

RECURSIVE skip_whitespace(_)
skip_whitespace(l) ==
    IF is_ascii_whitespace(l.ch) THEN skip_whitespace(read_char(l)) ELSE l

\* while self.ch != '\n' { self.read_char() }.  The loop is followed up to
\* Cap; a result whose ch is still not '\n' is a loop that is still running.
RECURSIVE skip_comment(_)
skip_comment(l) ==
    IF l.ch # "\n" /\ l.read_pos < Cap(l)
    THEN skip_comment(read_char(l))
    ELSE l

\* read_num and read_identifier return the lexer after the loop and the
\* characters pushed, as [lexer, literal]
RECURSIVE read_num_from(_, _)
read_num_from(l, num) ==
    IF is_num(l.ch)
    THEN read_num_from(read_char(l), Append(num, l.ch))
    ELSE [lexer |-> l, literal |-> num]

\* read_num advancing before it pushes
RECURSIVE read_num_push_late_from(_, _)
read_num_push_late_from(l, num) ==
    IF is_num(l.ch)
    THEN read_num_push_late_from(read_char(l), Append(num, read_char(l).ch))
    ELSE [lexer |-> l, literal |-> num]

read_num_push_late(l) == read_num_push_late_from(l, <<>>)

read_num(l) == read_num_from(l, <<>>)

RECURSIVE read_identifier_from(_, _)
read_identifier_from(l, identifier) ==
    IF is_letter(l.ch)
    THEN read_identifier_from(read_char(l), Append(identifier, l.ch))
    ELSE [lexer |-> l, literal |-> identifier]

\* read_identifier followed by the read_char of the end of next
read_identifier_overshoot(l) ==
    LET r == read_identifier_from(l, <<>>)
    IN  [lexer |-> read_char(r.lexer), literal |-> r.literal]

read_identifier(l) == read_identifier_from(l, <<>>)

\* while self.ch != '"' { push; read_char }.  Followed up to Cap, like
\* skip_comment: a result whose ch is not '"' is a loop still running.
RECURSIVE read_str_from(_, _)
read_str_from(l, identifier) ==
    IF l.ch # "\"" /\ l.read_pos < Cap(l)
    THEN read_str_from(read_char(l), Append(identifier, l.ch))
    ELSE [lexer |-> l, literal |-> identifier]

\* read_str advancing before it pushes
RECURSIVE read_str_push_late_from(_, _)
read_str_push_late_from(l, identifier) ==
    IF l.ch # "\"" /\ l.read_pos < Cap(l)
    THEN read_str_push_late_from(read_char(l),
                                 Append(identifier, read_char(l).ch))
    ELSE [lexer |-> l, literal |-> identifier]

read_str_push_late(l) == read_str_push_late_from(l, <<>>)

read_str(l) == read_str_from(l, <<>>)

\* The outcome of one call of next: the lexer afterwards, the token
\* returned, the position of the character the match dispatched on, and
\* whether the call returned at all (FALSE: it is still inside one of its
\* loops when the cursor reaches Cap).
Returned(l, token, d) ==
    [lexer |-> l, token |-> token, at |-> d, returned |-> TRUE]

Running(l, d) ==
    [lexer |-> l, token |-> Token("Illegal", <<>>), at |-> d,
     returned |-> FALSE]

\* the arms of `<` and `>` with their kinds exchanged
Fixed_swapped ==
    [c \in {";", ",", "(", ")", "{", "}", "+", "-", "*", "<", ">"} |->
        CASE c = ";" -> "Semicolon"
          [] c = "," -> "Comma"
          [] c = "(" -> "LeftParen"
          [] c = ")" -> "RightParen"
          [] c = "{" -> "LeftBrace"
          [] c = "}" -> "RightBrace"
          [] c = "+" -> "Plus"
          [] c = "-" -> "Minus"
          [] c = "*" -> "Asterisk"
          [] c = "<" -> "GreaterThan"
          [] c = ">" -> "LessThan"]

\* the arms of the match that fall through to the read_char of line 96
Fixed ==
    [c \in {";", ",", "(", ")", "{", "}", "+", "-", "*", "<", ">"} |->
        CASE c = ";" -> "Semicolon"
          [] c = "," -> "Comma"
          [] c = "(" -> "LeftParen"
          [] c = ")" -> "RightParen"
          [] c = "{" -> "LeftBrace"
          [] c = "}" -> "RightBrace"
          [] c = "+" -> "Plus"
          [] c = "-" -> "Minus"
          [] c = "*" -> "Asterisk"
          [] c = "<" -> "LessThan"
          [] c = ">" -> "GreaterThan"]

RECURSIVE next(_)
next(l0) ==
    LET l == skip_whitespace(l0)
        c == l.ch
    IN  CASE c \in DOMAIN Fixed ->
               Returned(read_char(l), new_token(Fixed[c], c), l.pos)
          [] c = "=" ->
               IF peek_char(l) = "="
               THEN Returned(read_char(read_char(l)),
                             Token("Eq", <<"=", "=">>), l.pos)
               ELSE Returned(read_char(l), new_token("Assign", c), l.pos)
          [] c = "!" ->
               IF peek_char(l) = "="
               THEN Returned(read_char(read_char(l)),
                             Token("NotEq", <<"!", "=">>), l.pos)
               ELSE Returned(read_char(l), new_token("Bang", c), l.pos)
          [] c = "/" ->
               IF peek_char(l) = "/"
               THEN LET after == skip_comment(l)
                    IN  IF after.ch # "\n"
                        THEN Running(after, l.pos)
                        ELSE next(after)
               ELSE Returned(read_char(l), new_token("Slash", c), l.pos)
          [] c = "\"" ->
               LET s == read_str(read_char(l))
               IN  IF s.lexer.ch # "\""
                   THEN Running(s.lexer, l.pos)
                   ELSE Returned(read_char(s.lexer),
                                 Token("Str", s.literal), l.pos)
          [] c = NUL ->
               Returned(read_char(l), new_token("Eof", NUL), l.pos)
          [] OTHER ->
               IF is_letter(c)
               THEN LET r == read_identifier(l)
                    IN  Returned(r.lexer,
                                 Token(lookup_identifier(r.literal),
                                       r.literal),
                                 l.pos)
               ELSE IF is_num(c)
               THEN LET r == read_num(l)
                    IN  Returned(r.lexer, Token("Int", r.literal), l.pos)
               ELSE Returned(l, new_token("Illegal", c), l.pos)

\* Lexer::new
new(text) ==
    read_char([input |-> text, pos |-> 0, read_pos |-> 0, ch |-> NUL])

(***************************************************************************)
(* Inputs.                                                                 *)
(***************************************************************************)
\* one character of every class the match and the loops tell apart
CoreAlphabet == {"a", "_", "1", "=", "!", "/", "\"", " ", "\n", ";", "@", NUL}

\* fragments: every fixed token, the reserved words and spellings that
\* contain or extend them, digit runs, white space, comments, strings and
\* characters outside ASCII
Pieces ==
    {<<c>> : c \in DOMAIN Fixed}
    \cup {<<"f", "n">>, <<"l", "e", "t">>, <<"i", "f">>,
          <<"e", "l", "s", "e">>, <<"t", "r", "u", "e">>,
          <<"f", "a", "l", "s", "e">>, <<"r", "e", "t", "u", "r", "n">>}
    \cup {<<"f">>, <<"x">>, <<"_">>, <<"F", "n">>, <<"l", "e">>,
          <<"r", "e", "t", "u", "r", "n", "s">>, <<EAcute>>}
    \cup {<<"0">>, <<"7">>, <<"1", "0">>, <<"0", "4", "2", "9">>,
          <<OneHalf>>, <<SuperTwo>>}
    \cup {<<"1">>, <<"1", "2">>, <<"a", "b">>}
    \cup {<<"=">>, <<"!">>, <<"=", "=">>, <<"!", "=">>, <<"/">>}
    \cup {<<" ">>, <<"\t">>, <<"\n">>, <<"\r">>, <<"\f">>, <<VTab>>,
          <<NoBreakSpace>>}
    \cup {<<"/", "/", "x">>, <<"/", "/", "x", "\n">>,
          <<"\"", "a", " ", "\"">>, <<"\"", "a">>, <<"\"">>,
          <<"@">>, <<NUL>>}

Strings(S, n) == UNION {[1..k -> S] : k \in 0..n}

RECURSIVE Concat(_)
Concat(ps) == IF ps = <<>> THEN <<>> ELSE Head(ps) \o Concat(Tail(ps))

Inputs ==
    Strings(CoreAlphabet, MaxLen)
    \cup {Concat(ps) : ps \in Strings(Pieces, MaxPieces)}

(***************************************************************************)
(* The state machine: a Lexer built by Lexer::new over some input, and     *)
(* the calls of next made on it.                                           *)
(*   status  "new" after Lexer::new, "returned" after a call of next that  *)
(*           returned, "running" once a call is inside a loop it does not  *)
(*           leave                                                         *)
(*   tok     the token the last call returned                              *)
(*   at      the position the last call dispatched on                      *)
(*   toks    the tokens returned so far, in order                          *)
(*   pc, stdin, stdout belong to repl::start and are idle here             *)
(***************************************************************************)
Self == [input |-> input, pos |-> pos, read_pos |-> read_pos, ch |-> ch]

NoToken == Token("Illegal", <<>>)

InitOn(texts) ==
    /\ input \in texts
    /\ pos = new(input).pos
    /\ read_pos = new(input).read_pos
    /\ ch = new(input).ch
    /\ status = "new"
    /\ tok = NoToken
    /\ at = 0
    /\ toks = <<>>
    /\ pc = "off"
    /\ stdin = <<>>
    /\ stdout = <<>>

Init == InitOn(Inputs)

CallNext ==
    /\ status # "running"
    /\ read_pos < Cap(Self)
    /\ Len(toks) < Cap(Self)
    /\ \E r \in {next(Self)} :
           /\ pos' = r.lexer.pos
           /\ read_pos' = r.lexer.read_pos
           /\ ch' = r.lexer.ch
           /\ at' = r.at
           /\ IF r.returned
              THEN /\ status' = "returned"
                   /\ tok' = r.token
                   /\ toks' = Append(toks, r.token)
              ELSE /\ status' = "running"
                   /\ UNCHANGED <<tok, toks>>
    /\ UNCHANGED <<input, pc, stdin, stdout>>

Next == CallNext

Spec == Init /\ [][Next]_vars

\* A caller that keeps calling next, as the loop of repl::start does: a
\* call that can be made is made.  The inputs are the short ones.
LiveInputs == Strings(CoreAlphabet, MaxLiveLen) \cup Pieces

FairSpec == InitOn(LiveInputs) /\ [][Next]_vars /\ WF_vars(CallNext)

(***************************************************************************)
(* repl.rs: start(stdin, stdout).                                          *)
(*   pc      where start is: "prompt" at the top of the outer loop, "read" *)
(*           before read_line, "tokens" in the inner loop, "done" once     *)
(*           start has returned ("off": start is not running)              *)
(*   stdin   the lines not read yet, each with its line end                *)
(*   stdout  what has been written, in order                               *)
(***************************************************************************)
PromptText == [w |-> "prompt"]

ErrorText == [w |-> "error"]

\* writeln!(stdout, "{token:?}")
TokenText(t) == [w |-> "token", token |-> t]

\* lines: one character of CoreAlphabet and the line end, an unclosed
\* string, a comment, two tokens, and a last line that has no line end
ReplLines ==
    {<<c, "\n">> : c \in CoreAlphabet \ {"\n"}}
    \cup {<<"\"", "a", "\n">>, <<"/", "/", "x", "\n">>,
          <<"a", "=", "\n">>, <<"\n">>, <<"a">>}

\* the prompts at the end of what has been written
RECURSIVE TrailingPrompts(_)
TrailingPrompts(out) ==
    IF out = <<>> \/ out[Len(out)] # PromptText
    THEN 0
    ELSE 1 + TrailingPrompts(SubSeq(out, 1, Len(out) - 1))

ReplInit ==
    /\ stdin \in Strings(ReplLines, MaxLines)
    /\ stdout = <<>>
    /\ pc = "prompt"
    /\ input = <<>>
    /\ pos = 0
    /\ read_pos = 0
    /\ ch = NUL
    /\ status = "new"
    /\ tok = NoToken
    /\ at = 0
    /\ toks = <<>>

\* write!(stdout, ">> "); stdout.flush().  Once the standard input is
\* exhausted the loop is followed for MaxOver more rounds.
Prompt ==
    /\ pc = "prompt"
    /\ stdin # <<>> \/ TrailingPrompts(stdout) <= MaxOver
    /\ stdout' = Append(stdout, PromptText)
    /\ pc' = "read"
    /\ UNCHANGED <<input, pos, read_pos, ch, status, tok, at, toks, stdin>>

\* read_line returned Ok (with 0 bytes and an empty line when the standard
\* input is exhausted); Lexer::new(&input)
ReadLine ==
    /\ pc = "read"
    /\ \E line \in {IF stdin = <<>> THEN <<>> ELSE Head(stdin)} :
           /\ input' = line
           /\ pos' = new(line).pos
           /\ read_pos' = new(line).read_pos
           /\ ch' = new(line).ch
    /\ stdin' = IF stdin = <<>> THEN <<>> ELSE Tail(stdin)
    /\ status' = "new"
    /\ tok' = NoToken
    /\ at' = 0
    /\ toks' = <<>>
    /\ pc' = "tokens"
    /\ UNCHANGED stdout

\* read_line returned Err(e): writeln!(stdout, "Error {e}"); return
ReadError ==
    /\ pc = "read"
    /\ stdout' = Append(stdout, ErrorText)
    /\ pc' = "done"
    /\ UNCHANGED <<input, pos, read_pos, ch, status, tok, at, toks, stdin>>

\* one round of the inner loop: lexer.next(), break on Eof, else writeln
ReplToken ==
    /\ pc = "tokens"
    /\ status # "running"
    /\ Len(toks) < Cap(Self)
    /\ \E r \in {next(Self)} :
           /\ pos' = r.lexer.pos
           /\ read_pos' = r.lexer.read_pos
           /\ ch' = r.lexer.ch
           /\ at' = r.at
           /\ IF ~r.returned
              THEN /\ status' = "running"
                   /\ UNCHANGED <<tok, toks, pc, stdout>>
              ELSE /\ status' = "returned"
                   /\ tok' = r.token
                   /\ toks' = Append(toks, r.token)
                   /\ IF r.token.kind = "Eof"
                      THEN pc' = "prompt" /\ UNCHANGED stdout
                      ELSE /\ stdout' = Append(stdout, TokenText(r.token))
                           /\ UNCHANGED pc
    /\ UNCHANGED <<input, stdin>>

ReplNext == Prompt \/ ReadLine \/ ReadError \/ ReplToken

\* start is sequential code: its next statement is executed.  Fairness is
\* asked of the steps that do not depend on the environment failing:
\* read_line is assumed to return.
ReplSpec ==
    /\ ReplInit
    /\ [][ReplNext]_vars
    /\ WF_vars(Prompt)
    /\ WF_vars(ReadLine)
    /\ WF_vars(ReplToken)

TypeOK ==
    /\ input \in Seq(STRING)
    /\ pos \in Nat
    /\ read_pos \in Nat
    /\ status \in {"new", "returned", "running"}
    /\ tok.kind \in TokenKind

(***************************************************************************)
(* Helpers of the properties.                                              *)
(***************************************************************************)
\* the character at position i of the input (0-based), NUL past the end
CharAt(i) == IF i < Len(input) THEN input[i + 1] ELSE NUL

\* a call of next has been made and it dispatched on the character c
DispatchedOn(c) == status # "new" /\ at < Len(input) /\ input[at + 1] = c

(***************************************************************************)
(* C1: for every finite input, repeated calls of next all return and one   *)
(* of them returns a token of kind Eof, also for inputs with unrecognized  *)
(* characters, unterminated strings and comments without a newline.        *)
(***************************************************************************)
C1_ReachesEof == <>(status = "returned" /\ tok.kind = "Eof")

(***************************************************************************)
(* C2: once a call of next has returned Eof, every later call returns Eof. *)
(***************************************************************************)
C2_EofIsFinal ==
    [][(status = "returned" /\ tok.kind = "Eof")
         => (status' = "returned" /\ tok'.kind = "Eof")]_vars

(***************************************************************************)
(* C3: when the character dispatched on is in none of the recognized       *)
(* classes, next returns Illegal with that character as text and leaves    *)
(* the cursor on the character after it; the input `@` yields Illegal "@"  *)
(* and then Eof.                                                           *)
(***************************************************************************)
\* recognized by no arm of the match and by neither is_letter nor is_num
Unrecognized(c) ==
    /\ ~is_ascii_whitespace(c)
    /\ c \notin DOMAIN Fixed \cup {"=", "!", "/", "\"", NUL}
    /\ c \notin AsciiLetters \cup {EAcute, "_"}
    /\ c \notin DecimalDigits \cup {OneHalf, SuperTwo}

C3_IllegalAndContinue ==
    /\ (status # "new" /\ Unrecognized(CharAt(at)))
         => /\ status = "returned"
            /\ tok = Token("Illegal", <<CharAt(at)>>)
            /\ pos = at + 1
    /\ (input = <<"@">> /\ Len(toks) >= 2)
         => toks[1] = Token("Illegal", <<"@">>) /\ toks[2].kind = "Eof"

(***************************************************************************)
(* C4: when no closing quote follows a string's opening quote, next        *)
(* returns a Str token whose text is the rest of the input after the       *)
(* opening quote, and the call after it returns Eof.                       *)
(***************************************************************************)
\* no '"' in the input after position i (0-based)
NoQuoteAfter(i) == \A j \in (i + 2)..Len(input) : input[j] # "\""

C4_UnterminatedStr ==
    (DispatchedOn("\"") /\ NoQuoteAfter(at))
      => /\ status = "returned"
         /\ tok = Token("Str", SubSeq(input, at + 2, Len(input)))

(***************************************************************************)
(* C5: for an input of exactly one character, the first call of next       *)
(* returns a token (of a recognized kind or Illegal): it does not fail to  *)
(* return.                                                                 *)
(***************************************************************************)
C5_SingleCharTotal ==
    (Len(input) = 1 /\ status # "new")
      => status = "returned" /\ tok.kind \in TokenKind /\ Len(toks) >= 1

(***************************************************************************)
(* C6: a line comment produces no token: the tokens returned for an input  *)
(* are those returned for the input with its comments (`//` up to, not     *)
(* including, the next newline) removed.                                   *)
(***************************************************************************)
\* the first position from i on that holds a newline, Len(s) + 1 if none
RECURSIVE LineEnd(_, _)
LineEnd(s, i) ==
    IF i > Len(s) \/ s[i] = "\n" THEN i ELSE LineEnd(s, i + 1)

\* s from position i on (1-based) without its comments; inStr: position i
\* is inside a string literal, where `//` starts no comment
RECURSIVE StripFrom(_, _, _)
StripFrom(s, i, inStr) ==
    IF i > Len(s) THEN <<>>
    ELSE IF inStr THEN <<s[i]>> \o StripFrom(s, i + 1, s[i] # "\"")
    ELSE IF s[i] = "\"" THEN <<s[i]>> \o StripFrom(s, i + 1, TRUE)
    ELSE IF s[i] = "/" /\ i < Len(s) /\ s[i + 1] = "/"
    THEN StripFrom(s, LineEnd(s, i), FALSE)
    ELSE <<s[i]>> \o StripFrom(s, i + 1, FALSE)

StripComments(s) == StripFrom(s, 1, FALSE)

\* n calls of next on the lexer l: the tokens returned, and whether every
\* call returned
RECURSIVE Run(_, _, _)
Run(l, n, acc) ==
    IF n = 0 THEN [toks |-> acc, ok |-> TRUE]
    ELSE LET r == next(l)
         IN  IF r.returned
             THEN Run(r.lexer, n - 1, Append(acc, r.token))
             ELSE [toks |-> acc, ok |-> FALSE]

\* the calls made so far, the one that has not returned included
CallsMade == Len(toks) + IF status = "running" THEN 1 ELSE 0

C6_CommentElided ==
    LET ref == Run(new(StripComments(input)), CallsMade, <<>>)
    IN  ref.toks = toks /\ ref.ok = (status # "running")

(***************************************************************************)
(* C7: a call that dispatches on a letter or an underscore returns one     *)
(* token whose text is the maximal run of letters and underscores that     *)
(* starts there; its kind is Fn, Let, If, Else, True, False or Return      *)
(* exactly when the run is spelled fn, let, if, else, true, false or       *)
(* return, and Identifier for every other spelling.  The run is maximal    *)
(* on the left too: no letter or underscore precedes it.                   *)
(***************************************************************************)
LetterOrUnderscore(c) == c \in AsciiLetters \cup {EAcute, "_"}

\* the end (exclusive, 0-based) of the maximal run of letters and
\* underscores that starts at position i
RunEnd(i) ==
    CHOOSE j \in i..Len(input) :
        /\ \A k \in i..(j - 1) : LetterOrUnderscore(CharAt(k))
        /\ j = Len(input) \/ ~LetterOrUnderscore(CharAt(j))

Reserved ==
    [kind \in {"Fn", "Let", "If", "Else", "True", "False", "Return"} |->
        CASE kind = "Fn" -> <<"f", "n">>
          [] kind = "Let" -> <<"l", "e", "t">>
          [] kind = "If" -> <<"i", "f">>
          [] kind = "Else" -> <<"e", "l", "s", "e">>
          [] kind = "True" -> <<"t", "r", "u", "e">>
          [] kind = "False" -> <<"f", "a", "l", "s", "e">>
          [] kind = "Return" -> <<"r", "e", "t", "u", "r", "n">>]

C7_KeywordOrIdentifier ==
    (status # "new" /\ LetterOrUnderscore(CharAt(at)))
      => /\ status = "returned"
         /\ tok.literal = SubSeq(input, at + 1, RunEnd(at))
         /\ pos = RunEnd(at)
         /\ at = 0 \/ ~LetterOrUnderscore(CharAt(at - 1))
         /\ \A kind \in DOMAIN Reserved :
              tok.kind = kind <=> tok.literal = Reserved[kind]
         /\ tok.kind \in DOMAIN Reserved \cup {"Identifier"}

\* a reserved word scanned after another token
C7_Witness_Keyword ==
    /\ status = "returned"
    /\ at > 0
    /\ tok = Token("Return", Reserved["Return"])

(***************************************************************************)
(* C8: an input that is a non-empty string D of decimal digits yields one  *)
(* Int token whose text is D, then Eof.                                    *)
(***************************************************************************)
IsDigits(s) == Len(s) > 0 /\ \A i \in 1..Len(s) : s[i] \in DecimalDigits

C8_IntRoundTrip ==
    IsDigits(input)
      => /\ status # "running"
         /\ Len(toks) >= 1 => toks[1] = Token("Int", input)
         /\ Len(toks) >= 2 => toks[2].kind = "Eof"

C8_Witness_LongInt ==
    /\ IsDigits(input)
    /\ Len(input) > MaxLen
    /\ Len(toks) = 2
    /\ toks[1] = Token("Int", input)

(***************************************************************************)
(* C9: on `=`, next returns Eq "==" and consumes two characters when the   *)
(* next character is `=`, and Assign "=" consuming one otherwise; on `!`   *)
(* it returns NotEq "!=" consuming two when the next character is `=`,     *)
(* and Bang "!" consuming one otherwise.  `===` scans as Eq, Assign and    *)
(* `!==` as NotEq, Assign.                                                 *)
(***************************************************************************)
C9_TwoCharOperators ==
    /\ DispatchedOn("=")
         => /\ status = "returned"
            /\ IF CharAt(at + 1) = "="
               THEN tok = Token("Eq", <<"=", "=">>) /\ pos = at + 2
               ELSE tok = Token("Assign", <<"=">>) /\ pos = at + 1
    /\ DispatchedOn("!")
         => /\ status = "returned"
            /\ IF CharAt(at + 1) = "="
               THEN tok = Token("NotEq", <<"!", "=">>) /\ pos = at + 2
               ELSE tok = Token("Bang", <<"!">>) /\ pos = at + 1
    /\ (input = <<"=", "=", "=">> /\ Len(toks) >= 2)
         => /\ toks[1] = Token("Eq", <<"=", "=">>)
            /\ toks[2] = Token("Assign", <<"=">>)
    /\ (input = <<"!", "=", "=">> /\ Len(toks) >= 2)
         => /\ toks[1] = Token("NotEq", <<"!", "=">>)
            /\ toks[2] = Token("Assign", <<"=">>)

C9_Witness_TripleEq ==
    /\ input = <<"!", "=", "=">>
    /\ Len(toks) = 2
    /\ tok.kind = "Assign"
    /\ pos = 3

(***************************************************************************)
(* C10: each of ; , ( ) { } + - * < > and a / that is not followed by /    *)
(* yields one token of its kind whose text is that character, and the      *)
(* cursor advances by exactly one character.                               *)
(***************************************************************************)
SingleCharKind ==
    [c \in {";", ",", "(", ")", "{", "}", "+", "-", "*", "<", ">", "/"} |->
        CASE c = ";" -> "Semicolon"
          [] c = "," -> "Comma"
          [] c = "(" -> "LeftParen"
          [] c = ")" -> "RightParen"
          [] c = "{" -> "LeftBrace"
          [] c = "}" -> "RightBrace"
          [] c = "+" -> "Plus"
          [] c = "-" -> "Minus"
          [] c = "*" -> "Asterisk"
          [] c = "<" -> "LessThan"
          [] c = ">" -> "GreaterThan"
          [] c = "/" -> "Slash"]

C10_SingleCharTokens ==
    \A c \in DOMAIN SingleCharKind :
        (DispatchedOn(c) /\ (c = "/" => CharAt(at + 1) # "/"))
          => /\ status = "returned"
             /\ tok = Token(SingleCharKind[c], <<c>>)
             /\ pos = at + 1
             /\ read_pos = at + 2

C10_Witness_Slash ==
    /\ DispatchedOn("/")
    /\ CharAt(at + 1) = ">"
    /\ tok = Token("Slash", <<"/">>)
    /\ pos = at + 1

(***************************************************************************)
(* C11: for a string literal with a closing quote, next returns one Str    *)
(* token whose text is the characters strictly between the opening quote   *)
(* and the next `"`, verbatim (empty for the empty literal), and leaves    *)
(* the cursor on the character after the closing quote.                    *)
(***************************************************************************)
\* the position (0-based) of the first '"' after position i
ClosingQuote(i) ==
    CHOOSE j \in (i + 1)..(Len(input) - 1) :
        /\ CharAt(j) = "\""
        /\ \A k \in (i + 1)..(j - 1) : CharAt(k) # "\""

C11_ClosedStr ==
    (DispatchedOn("\"") /\ ~NoQuoteAfter(at))
      => /\ status = "returned"
         /\ tok = Token("Str", SubSeq(input, at + 2, ClosingQuote(at)))
         /\ pos = ClosingQuote(at) + 1
         /\ ch = CharAt(pos)
         /\ read_pos = pos + 1

\* a literal holding a space, scanned with another token after it: the
\* cursor is left on the character after the closing quote
C11_Witness_StrThenToken ==
    /\ DispatchedOn("\"")
    /\ tok = Token("Str", <<"a", " ">>)
    /\ pos = at + 4
    /\ ch = ";"

(***************************************************************************)
(* C12: every token of kind Eof that next returns has the empty string as  *)
(* its text.                                                               *)
(***************************************************************************)
C12_EofTextEmpty ==
    (status = "returned" /\ tok.kind = "Eof") => tok.literal = <<>>

(***************************************************************************)
(* C13: in repl::start, for every line read the inner token loop ends:     *)
(* each non-Eof token of the line is written to the standard output once,  *)
(* in scan order, and then the prompt is written again; also for lines     *)
(* with unrecognized characters or an unclosed string.                     *)
(***************************************************************************)
\* what has been written since the last prompt
RECURSIVE SincePrompt(_)
SincePrompt(out) ==
    IF out = <<>> \/ out[Len(out)] = PromptText
    THEN <<>>
    ELSE Append(SincePrompt(SubSeq(out, 1, Len(out) - 1)), out[Len(out)])

\* the tokens of ts that are not Eof, as written
RECURSIVE Written(_)
Written(ts) ==
    IF ts = <<>> THEN <<>>
    ELSE IF Head(ts).kind = "Eof" THEN Written(Tail(ts))
    ELSE <<TokenText(Head(ts))>> \o Written(Tail(ts))

C13_LineIsPrinted ==
    /\ [](pc \in {"tokens", "prompt"} => SincePrompt(stdout) = Written(toks))
    /\ (pc = "tokens" /\ input # <<>>) ~> (pc = "read")

(***************************************************************************)
(* C14: every call of next that returns a token of a kind other than Eof   *)
(* leaves pos strictly greater than it was before the call.                *)
(***************************************************************************)
C14_NonEofAdvances ==
    [][(status' = "returned" /\ tok'.kind # "Eof") => pos' > pos]_vars

(***************************************************************************)
(* C15: a call of next that returns Eof does not advance the cursor: pos   *)
(* and read_pos after the call are what they were when the sentinel was    *)
(* detected, and pos never exceeds the length of the input.                *)
(***************************************************************************)
C15_EofDoesNotAdvance ==
    /\ (status = "returned" /\ tok.kind = "Eof")
         => pos = at /\ read_pos = at + 1
    /\ pos <= Len(input)

(***************************************************************************)
(* C16: after an identifier, keyword or Int token the cursor is on the     *)
(* first character after the token's run, so adjacent tokens lose no       *)
(* character and scan none twice: `x1` is Identifier "x", Int "1"; `12ab`  *)
(* is Int "12", Identifier "ab"; `ab;` is Identifier "ab", Semicolon.      *)
(***************************************************************************)
RunKinds == DOMAIN Reserved \cup {"Identifier", "Int"}

C16_CursorAfterRun ==
    /\ (status = "returned" /\ tok.kind \in RunKinds)
         => /\ tok.literal # <<>>
            /\ pos = at + Len(tok.literal)
            /\ tok.literal = SubSeq(input, at + 1, pos)
            /\ ch = CharAt(pos)
            /\ read_pos = pos + 1
            /\ tok.kind = "Int" => CharAt(pos) \notin DecimalDigits
            /\ tok.kind # "Int" => ~LetterOrUnderscore(CharAt(pos))
    /\ (input = <<"x", "1">> /\ Len(toks) >= 2)
         => /\ toks[1] = Token("Identifier", <<"x">>)
            /\ toks[2] = Token("Int", <<"1">>)
    /\ (input = <<"1", "2", "a", "b">> /\ Len(toks) >= 2)
         => /\ toks[1] = Token("Int", <<"1", "2">>)
            /\ toks[2] = Token("Identifier", <<"a", "b">>)
    /\ (input = <<"a", "b", ";">> /\ Len(toks) >= 2)
         => /\ toks[1] = Token("Identifier", <<"a", "b">>)
            /\ toks[2] = Token("Semicolon", <<";">>)

C16_Witness_IntThenIdentifier ==
    /\ input = <<"1", "2", "a", "b">>
    /\ toks = <<Token("Int", <<"1", "2">>), Token("Identifier", <<"a", "b">>)>>
    /\ pos = 4

(***************************************************************************)
(* C17: when a comment that starts with `//` runs to the end of the input  *)
(* with no newline after it, skip_comment stops at the end of the input    *)
(* and the same call of next returns Eof.                                  *)
(***************************************************************************)
\* the first position from p on whose character is not in the set S
RECURSIVE FirstNotIn(_, _)
FirstNotIn(S, p) == IF CharAt(p) \in S THEN FirstNotIn(S, p + 1) ELSE p

AsciiWhitespace == {" ", "\t", "\n", "\f", "\r"}

\* a comment starts at position q and no newline follows it
OpenCommentAt(q) ==
    /\ CharAt(q) = "/"
    /\ CharAt(q + 1) = "/"
    /\ \A k \in q..(Len(input) - 1) : CharAt(k) # "\n"

C17_OpenCommentGivesEof ==
    [][OpenCommentAt(FirstNotIn(AsciiWhitespace, pos))
         => (status' = "returned" /\ tok'.kind = "Eof")]_vars

(***************************************************************************)
(* C18: the text of every Int token consists of decimal digits only, and a *)
(* character that is numeric without being a decimal digit (a superscript  *)
(* or a fraction) yields Illegal, not Int.                                 *)
(***************************************************************************)
C18_IntIsDecimal ==
    /\ (status = "returned" /\ tok.kind = "Int")
         => \A i \in 1..Len(tok.literal) : tok.literal[i] \in DecimalDigits
    /\ (status # "new" /\ CharAt(at) \in {OneHalf, SuperTwo})
         => status = "returned" /\ tok.kind = "Illegal"

(***************************************************************************)
(* C19: at the start of every call of next, and again after a comment,     *)
(* all consecutive white-space characters under the cursor are skipped and *)
(* produce no token; an input made only of them yields Eof on the first    *)
(* call; no token other than Str has text containing one of them.          *)
(* As claimed, the skipped set is exactly space, tab, newline and carriage *)
(* return; as amended, it is exactly those four and form feed (U+000C).    *)
(***************************************************************************)
\* the position a call of next dispatches on when the cursor is at p and
\* exactly the characters of S are skipped: past white space, and past
\* every comment to its newline and the white space from there on (-1 when
\* a comment is followed by no newline)
RECURSIVE DispatchFrom(_, _)
DispatchFrom(S, p) ==
    LET q == FirstNotIn(S, p)
    IN  IF CharAt(q) = "/" /\ CharAt(q + 1) = "/"
        THEN IF OpenCommentAt(q)
             THEN -1
             ELSE DispatchFrom(S, LineEnd(input, q + 1) - 1)
        ELSE q

SkipsExactly(S) == status' = "returned" => at' = DispatchFrom(S, pos)

NoTokenFrom(S) ==
    /\ ((\A i \in 1..Len(input) : input[i] \in S) /\ status # "new")
         => status = "returned" /\ toks[1].kind = "Eof"
    /\ (status = "returned" /\ tok.kind # "Str")
         => \A i \in 1..Len(tok.literal) : tok.literal[i] \notin S

C19_SkipsFourCharacters ==
    /\ [][SkipsExactly({" ", "\t", "\n", "\r"})]_vars
    /\ []NoTokenFrom({" ", "\t", "\n", "\r"})

C19_SkipsAsciiWhitespace ==
    /\ [][SkipsExactly(AsciiWhitespace)]_vars
    /\ []NoTokenFrom(AsciiWhitespace)

\* a form feed skipped before a token
C19_Witness_FormFeedSkipped ==
    /\ input = <<"\f", ";">>
    /\ status = "returned"
    /\ at = 1
    /\ tok = Token("Semicolon", <<";">>)

(***************************************************************************)
(* C20: next returns Eof only when the cursor has passed the last          *)
(* character of the input: no character of the input, NUL included, makes  *)
(* it return Eof while input remains.                                      *)
(***************************************************************************)
C20_EofOnlyAtEnd ==
    (status = "returned" /\ tok.kind = "Eof") => at >= Len(input)

(***************************************************************************)
(* C21: after Lexer::new and after every call of next that has returned,   *)
(* read_pos = pos + 1, and ch is input[pos] when pos is below the input    *)
(* length and NUL otherwise; every index of input read by read_char and    *)
(* peek_char, at whatever position the cursor is, is within bounds.        *)
(***************************************************************************)
InBounds(I) == \A i \in I : 0 <= i /\ i < Len(input)

C21_CursorConsistent ==
    /\ status # "running" =>
         /\ read_pos = pos + 1
         /\ ch = IF pos < Len(input) THEN input[pos + 1] ELSE NUL
    /\ \A rp \in 0..Cap(Self) :
         /\ InBounds(read_char_index([Self EXCEPT !.read_pos = rp]))
         /\ InBounds(peek_char_index([Self EXCEPT !.read_pos = rp]))

\* the cursor just past the last character, and one call further
C21_Witness_SentinelAfterLast ==
    /\ input = <<"a", ";">>
    /\ toks = <<Token("Identifier", <<"a">>), Token("Semicolon", <<";">>),
                Token("Eof", <<NUL>>)>>
    /\ pos = 3
    /\ read_pos = 4
    /\ ch = NUL


(***************************************************************************)
(* C22: start terminates when the standard input is exhausted: once        *)
(* read_line has reported zero bytes read without an error, nothing more   *)
(* is written, no prompt in particular, and start returns.                 *)
(***************************************************************************)
\* the last read_line returned Ok(0): every line of the standard input has
\* at least one character, so only that read leaves the line empty
Exhausted ==
    /\ pc \in {"tokens", "prompt"}
    /\ stdout # <<>>
    /\ stdin = <<>>
    /\ input = <<>>

C22_ReturnsAtEndOfInput ==
    /\ [][Exhausted => stdout' = stdout]_vars
    /\ Exhausted ~> (pc = "done")

====
